---- MODULE Spec2Model ----
(***************************************************************************)
(* Model of WebfleetService.getHistoricalData (the chunk-capable revision  *)
(* of the cold-chain telemetry service): hex normalisation of sensor       *)
(* identifiers, assignStableIds, the merge of the three streams into       *)
(* snapshots keyed by timestamp, and the compaction loop that emits the    *)
(* sparse carry-forward event list with synthetic gap-boundary points.     *)
(*                                                                         *)
(* JavaScript values are encoded as follows.                               *)
(*   - numeric fields hold integers; the sentinels Undefined, Null and NaN *)
(*     stand for the JavaScript values of the same name;                   *)
(*   - a timestamp string is held as the epoch-millisecond value it parses *)
(*     to, or as InvalidDate when Date cannot parse it;                    *)
(*   - a hex sensor code is a sequence of one-character strings, the empty *)
(*     sequence standing for an absent (falsy) code;                       *)
(*   - an optional object is <<>> when absent/null and <<m>> when present; *)
(*   - a map keyed by sensor id is a function from a set of ids.           *)
(* TemperatureReading.name (a display label derived from the sensor id)    *)
(* and the location's address are not modelled; coordinates are kept in    *)
(* micro-degrees.                                                          *)
(*                                                                         *)
(* The fetch that feeds the pipeline is modelled on its own: invocations   *)
(* of getHistoricalData (range-pattern mode, chunked mode, configuration   *)
(* error) and of getChunkedHistoricalData, the apiRequest calls they have  *)
(* in flight, and the settlement of one request at a time followed by the  *)
(* code that was waiting for it.  Code between two awaits runs as one      *)
(* step.  The windows of chunked mode are counted in days.                 *)
(***************************************************************************)
EXTENDS Integers, Sequences, FiniteSets, TLC

\* ------------------------------------------------------------------ bounds
MaxRecords == 3
MaxTs == 3

\* ------------------------------------------------------- JavaScript values
Undefined == -1
Null == -4
NaN == -2
InvalidDate == -3

Absent == <<>>
Some(x) == <<x>>
IsSome(o) == o # <<>>
Get(o) == o[1]

\* JavaScript truthiness of a numeric-or-missing field
Truthy(x) == x # Undefined /\ x # Null /\ x # NaN /\ x # 0

\* typeof x === 'number' for a field holding a number, null or undefined
IsNumber(x) == x # Undefined /\ x # Null

\* new Date(s).getTime()
DateGetTime(s) == IF s = Undefined \/ s = InvalidDate THEN NaN ELSE s

\* a > b on numbers: false as soon as one side is NaN
Gt(a, b) == a # NaN /\ b # NaN /\ a > b

\* a + n on numbers
Plus(a, n) == IF a = NaN THEN NaN ELSE a + n

Range(s) == {s[i] : i \in DOMAIN s}

SetMax(S) == CHOOSE x \in S : \A y \in S : y <= x

RECURSIVE Flatten(_)
Flatten(ss) == IF ss = <<>> THEN <<>> ELSE Head(ss) \o Flatten(Tail(ss))

\* { ...a, ...b }
Spread(a, b) ==
    [k \in (DOMAIN a) \cup (DOMAIN b) |-> IF k \in DOMAIN b THEN b[k] ELSE a[k]]

\* o || {} for an optional map
OrEmpty(o) == IF IsSome(o) THEN Get(o) ELSE <<>>

\* ------------------------------------------------- normalizeSensorData
HexChars == {"0", "1", "2", "3", "a"}

DigitValue(c) ==
    CASE c = "0" -> 0 [] c = "1" -> 1 [] c = "2" -> 2 [] c = "3" -> 3 [] c = "a" -> 10

RECURSIVE ParsePrefix(_, _, _)
ParsePrefix(s, i, acc) ==
    IF i > Len(s) \/ s[i] \notin HexChars
    THEN acc
    ELSE ParsePrefix(s, i + 1, acc * 16 + DigitValue(s[i]))

\* parseInt(code, 16): the longest hexadecimal prefix, NaN when there is none
ParseInt16(s) ==
    IF s = <<>> \/ s[1] \notin HexChars THEN NaN ELSE ParsePrefix(s, 1, 0)

NormalizeOne(d) ==
    IF d.sensorcode # <<>> /\ d.sensor = Undefined
    THEN LET numericId == ParseInt16(d.sensorcode)
         IN  IF numericId # NaN THEN [d EXCEPT !.sensor = numericId] ELSE d
    ELSE d

normalizeSensorData(data) == [i \in DOMAIN data |-> NormalizeOne(data[i])]

\* ------------------------------------------------------ assignStableIds
UndefinedStatus == "undefined"

\* d[valueKey] !== undefined
HasValue(d, valueKey) ==
    IF valueKey = "temperature" THEN d.temperature # Undefined
    ELSE d.status # UndefinedStatus

\* the timestamp the first pass groups by (null when the field is missing)
GroupTs(d) == IF d.timestamp # Undefined THEN DateGetTime(d.timestamp) ELSE Null

\* the guard of the first pass: ts && !isNaN(ts) && d[valueKey] !== undefined
Retained(d, valueKey) ==
    /\ Truthy(GroupTs(d))
    /\ HasValue(d, valueKey)

\* !r.sensor
IsAnon(r) == ~Truthy(r.sensor)

RECURSIVE FirstSeen(_, _, _, _)
FirstSeen(data, valueKey, i, acc) ==
    IF i > Len(data) THEN acc
    ELSE IF Retained(data[i], valueKey) /\ GroupTs(data[i]) \notin Range(acc)
         THEN FirstSeen(data, valueKey, i + 1, Append(acc, GroupTs(data[i])))
         ELSE FirstSeen(data, valueKey, i + 1, acc)

\* the keys of readingsByTs in insertion order
GroupKeys(data, valueKey) == FirstSeen(data, valueKey, 1, <<>>)

\* readingsByTs.get(ts)
GroupOf(data, valueKey, ts) ==
    SelectSeq(data, LAMBDA d : Retained(d, valueKey) /\ GroupTs(d) = ts)

explicitIds(data, valueKey) ==
    {data[i].sensor : i \in {j \in DOMAIN data :
        Retained(data[j], valueKey) /\ Truthy(data[j].sensor)}}

AnonCount(readings) == Len(SelectSeq(readings, IsAnon))

maxAnonCount(data, valueKey) ==
    LET keys == GroupKeys(data, valueKey)
        counts == {AnonCount(GroupOf(data, valueKey, keys[i])) : i \in DOMAIN keys}
    IN  IF counts = {} THEN 0 ELSE SetMax(counts)

maxExplicitId(data, valueKey) ==
    IF explicitIds(data, valueKey) # {} THEN SetMax(explicitIds(data, valueKey)) ELSE 0

\* the pool started at 1 whatever the explicit ids are
anonIdPoolFromOne(data, valueKey, index) == index

\* anonIdPool[index], index counted from 1 here
anonIdPool(data, valueKey, index) == maxExplicitId(data, valueKey) + index

ProcessGroup(data, valueKey, readings) ==
    LET anonReadings == SelectSeq(readings, IsAnon)
        explicitReadings == SelectSeq(readings, LAMBDA r : ~IsAnon(r))
        updatedAnonReadings ==
            [i \in DOMAIN anonReadings |->
                [anonReadings[i] EXCEPT !.sensor = anonIdPool(data, valueKey, i)]]
    IN  updatedAnonReadings \o explicitReadings

assignStableIds(data, valueKey) ==
    IF Len(data) = 0 THEN <<>>
    ELSE IF maxAnonCount(data, valueKey) = 0 THEN data
    ELSE LET keys == GroupKeys(data, valueKey)
         IN  Flatten([i \in DOMAIN keys |->
                 ProcessGroup(data, valueKey, GroupOf(data, valueKey, keys[i]))])

\* ----------------------------------------------- merge into dataByTs
EmptyPoint == [temperatures |-> Absent, doorStatus |-> Absent, location |-> Absent]

getOrCreatePoint(m, ts) == IF ts \in DOMAIN m THEN m ELSE m @@ (ts :> EmptyPoint)

\* a sensor entry already in the snapshot is kept
TempWriteFirstWins(m, d) ==
    LET ts == DateGetTime(d.timestamp)
    IN  IF Truthy(d.sensor) /\ IsNumber(d.temperature)
        THEN LET m1 == getOrCreatePoint(m, ts)
                 temps == OrEmpty(m1[ts].temperatures)
             IN  [m1 EXCEPT ![ts].temperatures =
                     Some(Spread((d.sensor :> d.temperature), temps))]
        ELSE m

TempWrite(m, d) ==
    LET ts == DateGetTime(d.timestamp)
    IN  IF Truthy(d.sensor) /\ IsNumber(d.temperature)
        THEN LET m1 == getOrCreatePoint(m, ts)
                 temps == OrEmpty(m1[ts].temperatures)
             IN  [m1 EXCEPT ![ts].temperatures =
                     Some(Spread(temps, (d.sensor :> d.temperature)))]
        ELSE m

\* d.status === 'OPEN' ? 1 : 0
DoorValue(status) == IF status = "OPEN" THEN 1 ELSE 0

DoorWrite(m, d) ==
    LET ts == DateGetTime(d.timestamp)
    IN  IF Truthy(d.sensor) /\ d.status # UndefinedStatus
        THEN LET m1 == getOrCreatePoint(m, ts)
                 doors == OrEmpty(m1[ts].doorStatus)
             IN  [m1 EXCEPT ![ts].doorStatus =
                     Some(Spread(doors, (d.sensor :> DoorValue(d.status))))]
        ELSE m

\* x / 1000000 on a coordinate that may be undefined
ToDegrees(x) == IF IsNumber(x) THEN x ELSE NaN

TrackTs(d) == IF d.pos_time # Undefined THEN DateGetTime(d.pos_time) ELSE Null

\* a later sample of the same timestamp replaces the location
TrackWriteLastWins(m, d) ==
    LET ts == TrackTs(d)
    IN  IF Truthy(ts) /\ (IsNumber(d.latitude) \/ IsNumber(d.longitude))
        THEN LET m1 == getOrCreatePoint(m, ts)
             IN  [m1 EXCEPT ![ts].location =
                     Some([lat |-> ToDegrees(d.latitude), lng |-> ToDegrees(d.longitude)])]
        ELSE m

TrackWrite(m, d) ==
    LET ts == TrackTs(d)
    IN  IF Truthy(ts) /\ (IsNumber(d.latitude) \/ IsNumber(d.longitude))
        THEN LET m1 == getOrCreatePoint(m, ts)
             IN  IF ~IsSome(m1[ts].location)
                 THEN [m1 EXCEPT ![ts].location =
                         Some([lat |-> ToDegrees(d.latitude), lng |-> ToDegrees(d.longitude)])]
                 ELSE m1
        ELSE m

\* the callback of the forEach over one of the three streams
Write(stream, m, d) ==
    CASE stream = "temperature" -> TempWrite(m, d)
      [] stream = "door" -> DoorWrite(m, d)
      [] stream = "track" -> TrackWrite(m, d)

RECURSIVE ForEach(_, _, _, _)
ForEach(stream, data, i, m) ==
    IF i > Len(data) THEN m ELSE ForEach(stream, data, i + 1, Write(stream, m, data[i]))

MergeStreams(temps, doors, tracks) ==
    ForEach("track", tracks, 1,
        ForEach("door", doors, 1,
            ForEach("temperature", temps, 1, <<>>)))

\* Array.from(keys).sort((a, b) => a - b).  The comparator is a consistent
\* ordering exactly when no key is NaN; with a NaN key a - b is NaN for some
\* pairs and the resulting order is implementation-defined.
IsAscending(s) == \A i \in 1..(Len(s) - 1) : s[i] < s[i + 1]

Orderings(S) == {p \in [1..Cardinality(S) -> S] : Range(p) = S}

SortOutcomes(S) ==
    IF NaN \in S THEN Orderings(S) ELSE {p \in Orderings(S) : IsAscending(p)}

\* ------------------------------------------------------ compaction loop
HasKeys(o) == IsSome(o) /\ DOMAIN Get(o) # {}

combinedDoorStatus(lastD, point) == Spread(OrEmpty(lastD), OrEmpty(point.doorStatus))

\* JSON.stringify(combinedDoorStatus) !== JSON.stringify(lastDoor): integer-like
\* keys are serialised in ascending order, so the strings differ exactly when
\* the values do ("null" against an object included)
doorChanged(lastD, point) == Some(combinedDoorStatus(lastD, point)) # lastD

\* any door data counted as an event, changed or not
IsEventOnDoorData(res, lastD, point) ==
    \/ Len(res) = 0
    \/ HasKeys(point.temperatures)
    \/ HasKeys(point.doorStatus)
    \/ IsSome(point.location)

\* the rule without the location test
IsEventNoLocation(res, lastD, point) ==
    \/ Len(res) = 0
    \/ HasKeys(point.temperatures)
    \/ doorChanged(lastD, point)

IsEvent(res, lastD, point) ==
    \/ Len(res) = 0
    \/ HasKeys(point.temperatures)
    \/ doorChanged(lastD, point)
    \/ IsSome(point.location)

\* a boundary point before every later snapshot
GapBeforeAnyStep(timestamp, prevTimestamp) == Gt(timestamp, prevTimestamp)

\* the threshold off by one
GapBeforeOffByOne(timestamp, prevTimestamp) == Gt(timestamp, Plus(prevTimestamp, 2))

\* timestamp > prevTimestamp + 1
GapBefore(timestamp, prevTimestamp) == Gt(timestamp, Plus(prevTimestamp, 1))

\* the carried temperatures forgotten when the snapshot brings none
currentTempsNoCarry(carried, point) ==
    IF HasKeys(point.temperatures)
    THEN Some(Spread(OrEmpty(carried), Get(point.temperatures)))
    ELSE Absent

currentTemps(carried, point) ==
    IF HasKeys(point.temperatures)
    THEN Some(Spread(OrEmpty(carried), Get(point.temperatures)))
    ELSE carried

\* the door map of the snapshot alone
currentDoorOfSnapshot(lastD, point) ==
    IF HasKeys(point.doorStatus) THEN point.doorStatus ELSE Absent

currentDoor(lastD, point) ==
    IF HasKeys(point.doorStatus) \/ IsSome(lastD)
    THEN Some(combinedDoorStatus(lastD, point))
    ELSE Absent

currentLocation(lastLoc, point) ==
    IF IsSome(point.location) THEN point.location ELSE lastLoc

\* the boundary point left without the carried state
SyntheticPointBlank(timestamp, carried, lastD, lastLoc) ==
    [timestamp |-> timestamp - 1, temperatures |-> Absent,
     doorStatus |-> Absent, location |-> Absent]

SyntheticPoint(timestamp, carried, lastD, lastLoc) ==
    [timestamp |-> timestamp - 1, temperatures |-> carried,
     doorStatus |-> lastD, location |-> lastLoc]

RealPoint(timestamp, carried, lastD, lastLoc, point) ==
    [timestamp |-> timestamp, temperatures |-> currentTemps(carried, point),
     doorStatus |-> currentDoor(lastD, point),
     location |-> currentLocation(lastLoc, point)]

\* --------------------------- lines 347-472 as one step of the event loop
\* Nothing is awaited after Promise.all has resolved: normalisation, merge,
\* sort and the loop over sortedTimestamps run to completion in one turn.
LoopStart ==
    [results |-> <<>>, lastDoor |-> Absent, carriedTemps |-> Absent,
     lastLocation |-> Absent]

\* one iteration of the loop of lines 430-468
LoopBody(acc, timestamp, point) ==
    LET gap == /\ Len(acc.results) > 0
               /\ GapBefore(timestamp, acc.results[Len(acc.results)].timestamp)
        synth == IF gap
                 THEN <<SyntheticPoint(timestamp, acc.carriedTemps, acc.lastDoor,
                                       acc.lastLocation)>>
                 ELSE <<>>
        real == RealPoint(timestamp, acc.carriedTemps, acc.lastDoor,
                          acc.lastLocation, point)
    IN  IF IsEvent(acc.results, acc.lastDoor, point)
        THEN [results |-> acc.results \o synth \o <<real>>,
              lastDoor |-> real.doorStatus,
              carriedTemps |-> real.temperatures,
              lastLocation |-> real.location]
        ELSE acc

RECURSIVE Loop(_, _, _, _)
Loop(sorted, m, i, acc) ==
    IF i > Len(sorted) THEN acc.results
    ELSE Loop(sorted, m, i + 1, LoopBody(acc, sorted[i], m[sorted[i]]))

\* a value handed over by apiRequest: a JSON array, a JSON object that is not
\* an array, or null
Array(b) == [kind |-> "array", body |-> b]

\* Array.isArray(data) ? data : nothing to iterate
AsArray(v) == IF v.kind = "array" THEN v.body ELSE <<>>

\* the results getHistoricalData can return for three resolved streams
HistoricalData(rawTemp, rawDoor, track) ==
    LET temps == assignStableIds(normalizeSensorData(AsArray(rawTemp)), "temperature")
        doors == assignStableIds(normalizeSensorData(AsArray(rawDoor)), "status")
        m == MergeStreams(temps, doors, AsArray(track))
    IN  {Loop(sorted, m, 1, LoopStart) : sorted \in SortOutcomes(DOMAIN m)}

\* ------------------------------------------------------------ apiRequest
AuthenticationFailed == "Authentication failed. Please check your username and password."

ApiError == "API Error"

ConfigurationError == "Either rangePattern or startTime/endTime must be provided."

\* the request has been sent and fetch has not resolved yet
Pending == [kind |-> "pending", body |-> <<>>]

\* apiRequest rejects: status 401, any other status that is not ok, or a body
\* that is not JSON
Throws(reply) == reply.kind \in {"unauthorized", "failure"}

\* the message of the Error apiRequest throws
ErrorOf(reply) == IF reply.kind = "unauthorized" THEN AuthenticationFailed ELSE ApiError

\* -------------------------------------------- getChunkedHistoricalData
\* The window and the chunk durations are counted in days.
SEVEN_DAYS_MS == 7

TWO_DAYS_MS == 2

StreamNames == {"temperature", "door", "track"}

Min(a, b) == IF a < b THEN a ELSE b

\* the final chunk not clipped to endTime
currentEndTimeUnclipped(currentStartTime, maxDurationMs, endTime) ==
    currentStartTime + maxDurationMs

currentEndTime(currentStartTime, maxDurationMs, endTime) ==
    Min(currentStartTime + maxDurationMs, endTime)

\* the request of the following chunk sent along with this one
IssueEager(log, from, to, endTime) ==
    log \o <<[from |-> from, to |-> to, reply |-> Pending]>>
        \o (IF to < endTime
            THEN <<[from |-> to, to |-> endTime, reply |-> Pending]>>
            ELSE <<>>)

\* line 94: apiRequest is called for the chunk and awaited
Issue(log, from, to, endTime) ==
    Append(log, [from |-> from, to |-> to, reply |-> Pending])

\* the locals of one getChunkedHistoricalData activation, or of one
\* apiRequest(...).catch(() => []) in range-pattern mode
StreamLocals(mode, startTime, endTime, maxDurationMs) ==
    [mode |-> mode, currentStartTime |-> startTime, endTime |-> endTime,
     maxDurationMs |-> maxDurationMs, allData |-> <<>>,
     resolved |-> FALSE, value |-> Array(<<>>)]

NotStarted == StreamLocals("none", Undefined, Undefined, Undefined)

\* the loop test of line 83: request the next chunk, or return allData
Continue(st, log) ==
    IF st.currentStartTime < st.endTime
    THEN [stream |-> st,
          log |-> Issue(log, st.currentStartTime,
                        currentEndTime(st.currentStartTime, st.maxDurationMs, st.endTime),
                        st.endTime)]
    ELSE [stream |-> [st EXCEPT !.resolved = TRUE, !.value = Array(st.allData)],
          log |-> log]

getChunkedHistoricalData(startTime, endTime, maxDurationMs) ==
    Continue(StreamLocals("chunked", startTime, endTime, maxDurationMs), <<>>)

\* a failed chunk is requested again
AfterChunkRetry(st, to, reply) ==
    IF Throws(reply) THEN st
    ELSE [st EXCEPT !.allData = IF reply.kind = "null" THEN @ ELSE @ \o reply.body,
                    !.currentStartTime = to]

\* a failed chunk aborts the fetch with what it has so far
AfterChunkAbort(st, to, reply) ==
    IF Throws(reply)
    THEN [st EXCEPT !.currentStartTime = st.endTime]
    ELSE [st EXCEPT !.allData = IF reply.kind = "null" THEN @ ELSE @ \o reply.body,
                    !.currentStartTime = to]

\* lines 93-102: chunkData is appended when apiRequest returned something
\* truthy (an object that is not an array as a single record), an error is
\* logged and dropped, and the window moves on either way
AfterChunk(st, to, reply) ==
    [st EXCEPT !.allData = IF Throws(reply) \/ reply.kind = "null"
                           THEN @ ELSE @ \o reply.body,
               !.currentStartTime = to]

OnChunkReply(st, log, to, reply) == Continue(AfterChunk(st, to, reply), log)

\* lines 330-332: apiRequest(...).catch(() => [])
startRange ==
    [stream |-> StreamLocals("range", Undefined, Undefined, Undefined),
     log |-> <<[from |-> Undefined, to |-> Undefined, reply |-> Pending]>>]

\* the rejection handed on instead of being replaced by []
CaughtValuePropagate(reply) == reply

CaughtValue(reply) == IF Throws(reply) THEN Array(<<>>) ELSE reply

OnRangeReply(st, log, reply) ==
    [stream |-> [st EXCEPT !.resolved = TRUE, !.value = CaughtValue(reply)],
     log |-> log]

\* line 336 against lines 334-335
maxDurationMs(s) == IF s = "track" THEN TWO_DAYS_MS ELSE SEVEN_DAYS_MS

\* ------------------------------------------------------------- the state
VARIABLES
    pc,                 \* position in getHistoricalData
    rawTempData,        \* resolved temperature stream
    rawDoorData,        \* resolved door stream
    trackData,          \* resolved track stream
    tempData,           \* after normalizeSensorData and assignStableIds
    doorData,
    dataByTs,           \* snapshots keyed by timestamp
    sortedTimestamps,
    idx,                \* position of the loop in sortedTimestamps
    results,
    lastDoor,
    carriedTemps,
    lastLocation,
    kinds,              \* history: "real" or "synthetic" for each element of results
    visited,            \* history: one record per snapshot the loop has processed
    calls,              \* invocations of getHistoricalData: options, position, outcome
    streams,            \* per invocation and stream: the locals of its fetch
    requests,           \* per invocation and stream: the apiRequest calls, in issue order
    expandedTripId,     \* TripReport state: the expanded trip, or NoTrip
    expandedTripData,   \* TripReport state: null, or what a response delivered
    isTripDetailsLoading,
    tripDetailsError,
    tripRequests,       \* getHistoricalData calls of toggleTrip still awaited
    toggles             \* number of toggleTrip calls so far

fetchVars == <<calls, streams, requests>>

pipelineVars == <<pc, rawTempData, rawDoorData, trackData, tempData, doorData, dataByTs,
                  sortedTimestamps, idx, results, lastDoor, carriedTemps, lastLocation,
                  kinds, visited>>

tripVars == <<expandedTripId, expandedTripData, isTripDetailsLoading, tripDetailsError,
              tripRequests, toggles>>

vars == <<pipelineVars, fetchVars, tripVars>>

\* --------------------------------------------------------------- inputs
Timestamps == 1..MaxTs

\* every record carries its position in the stream as its identity
WithIds(s) == [i \in DOMAIN s |-> s[i] @@ [id |-> i]]

Streams(Records, n) == {WithIds(s) : s \in [1..n -> Records]}

\* Well-formed readings of sensor 1 at every timestamp, a second value and an
\* anonymous reading at timestamp 2, and one reading for each way a record can
\* be malformed: an unparseable or missing timestamp, a missing quantity, a hex
\* code that does not parse, a door state that is neither OPEN nor CLOSED.
\* Valid timestamps are positive.
TempRecords ==
    [timestamp : Timestamps, temperature : {5}, sensor : {1}, sensorcode : {<<>>}]
    \cup {[timestamp |-> 2, temperature |-> 6, sensor |-> 1, sensorcode |-> <<>>],
          [timestamp |-> 2, temperature |-> 5, sensor |-> Undefined, sensorcode |-> <<>>],
          [timestamp |-> InvalidDate, temperature |-> 6, sensor |-> 1, sensorcode |-> <<>>],
          [timestamp |-> 1, temperature |-> Undefined, sensor |-> 1, sensorcode |-> <<>>],
          [timestamp |-> 1, temperature |-> 6, sensor |-> Undefined, sensorcode |-> <<"z", "z">>]}

DoorRecords ==
    [timestamp : Timestamps, status : {"OPEN", "CLOSED"}, sensor : {1}, sensorcode : {<<>>}]
    \cup {[timestamp |-> 2, status |-> "OPEN", sensor |-> Undefined, sensorcode |-> <<>>],
          [timestamp |-> Undefined, status |-> "OPEN", sensor |-> 1, sensorcode |-> <<>>],
          [timestamp |-> 1, status |-> UndefinedStatus, sensor |-> 1, sensorcode |-> <<>>],
          [timestamp |-> 1, status |-> "UNKNOWN", sensor |-> 1, sensorcode |-> <<>>]}

TrackRecords ==
    [pos_time : Timestamps, latitude : {10}, longitude : {20}]
    \cup {[pos_time |-> 2, latitude |-> 11, longitude |-> 20],
          [pos_time |-> InvalidDate, latitude |-> 10, longitude |-> 20],
          [pos_time |-> 1, latitude |-> Undefined, longitude |-> Undefined]}

\* the state of a TripReport that has just been mounted (useState initial
\* values)
NoTrip == 0

NoTrips ==
    /\ expandedTripId = NoTrip
    /\ expandedTripData = Absent
    /\ isTripDetailsLoading = FALSE
    /\ tripDetailsError = ""
    /\ tripRequests = {}
    /\ toggles = 0

\* no invocation is being traced: the pipeline starts from resolved streams
NoCalls ==
    /\ calls = <<>>
    /\ streams = <<>>
    /\ requests = <<>>

InitLocals ==
    /\ pc = "resolved"
    /\ tempData = <<>>
    /\ doorData = <<>>
    /\ dataByTs = <<>>
    /\ sortedTimestamps = <<>>
    /\ idx = 1
    /\ results = <<>>
    /\ lastDoor = Absent
    /\ carriedTemps = Absent
    /\ lastLocation = Absent
    /\ kinds = <<>>
    /\ visited = <<>>

Init ==
    /\ \E nt \in 0..MaxRecords : \E nd \in 0..(MaxRecords - nt) :
         \E nl \in 0..(MaxRecords - nt - nd) :
           /\ rawTempData \in Streams(TempRecords, nt)
           /\ rawDoorData \in Streams(DoorRecords, nd)
           /\ trackData \in Streams(TrackRecords, nl)
    /\ InitLocals
    /\ NoCalls
    /\ NoTrips

\* Inputs of the normaliser alone: one stream, every kind of identifier (none,
\* the numeric ids 0 and 1, a hex code that parses to 2, a hex code that does
\* not parse) on two timestamps, and malformed records that carry an id.
NormTimestamps == {1, 2}

Idents ==
    {[sensor |-> Undefined, sensorcode |-> <<>>],
     [sensor |-> 0, sensorcode |-> <<>>],
     [sensor |-> 1, sensorcode |-> <<>>],
     [sensor |-> Undefined, sensorcode |-> <<"2">>],
     [sensor |-> Undefined, sensorcode |-> <<"z", "z">>]}

NormTempRecords ==
    {[timestamp |-> t, temperature |-> 5, sensor |-> x.sensor, sensorcode |-> x.sensorcode] :
        t \in NormTimestamps, x \in Idents}
    \cup {[timestamp |-> InvalidDate, temperature |-> 5, sensor |-> 3, sensorcode |-> <<>>],
          [timestamp |-> Undefined, temperature |-> 5, sensor |-> Undefined, sensorcode |-> <<>>],
          [timestamp |-> 1, temperature |-> Undefined, sensor |-> 3, sensorcode |-> <<>>]}

NormDoorRecords ==
    {[timestamp |-> t, status |-> "OPEN", sensor |-> x.sensor, sensorcode |-> x.sensorcode] :
        t \in NormTimestamps, x \in Idents}
    \cup {[timestamp |-> InvalidDate, status |-> "OPEN", sensor |-> 3, sensorcode |-> <<>>],
          [timestamp |-> Undefined, status |-> "OPEN", sensor |-> Undefined, sensorcode |-> <<>>],
          [timestamp |-> 1, status |-> UndefinedStatus, sensor |-> 3, sensorcode |-> <<>>]}

InitNorm ==
    /\ \E n \in 0..MaxRecords :
         \/ /\ rawTempData \in Streams(NormTempRecords, n)
            /\ rawDoorData = <<>>
         \/ /\ rawDoorData \in Streams(NormDoorRecords, n)
            /\ rawTempData = <<>>
    /\ trackData = <<>>
    /\ InitLocals
    /\ NoCalls
    /\ NoTrips

\* --------------------------------------------------------------- actions
\* lines 361-365: normalizeSensorData, then assignStableIds, on both streams
Normalize ==
    /\ pc = "resolved"
    /\ tempData' = assignStableIds(normalizeSensorData(rawTempData), "temperature")
    /\ doorData' = assignStableIds(normalizeSensorData(rawDoorData), "status")
    /\ pc' = "normalized"
    /\ UNCHANGED <<rawTempData, rawDoorData, trackData, dataByTs, sortedTimestamps,
                   idx, results, lastDoor, carriedTemps, lastLocation, kinds, visited>>
    /\ UNCHANGED <<fetchVars, tripVars>>

\* lines 367-421: the three forEach passes and the sort
Merge ==
    /\ pc = "normalized"
    /\ dataByTs' = MergeStreams(tempData, doorData, trackData)
    /\ sortedTimestamps' \in SortOutcomes(DOMAIN dataByTs')
    /\ pc' = "merged"
    /\ UNCHANGED <<rawTempData, rawDoorData, trackData, tempData, doorData,
                   idx, results, lastDoor, carriedTemps, lastLocation, kinds, visited>>
    /\ UNCHANGED <<fetchVars, tripVars>>

\* line 423
ReturnEmpty ==
    /\ pc = "merged"
    /\ Len(sortedTimestamps) = 0
    /\ pc' = "done"
    /\ UNCHANGED <<rawTempData, rawDoorData, trackData, tempData, doorData, dataByTs,
                   sortedTimestamps, idx, results, lastDoor, carriedTemps, lastLocation,
                   kinds, visited>>
    /\ UNCHANGED <<fetchVars, tripVars>>

\* the iteration with the carried temperatures dropped when the snapshot is
\* not emitted
CompactStepForgetsOnSkip ==
    /\ pc = "merged"
    /\ idx <= Len(sortedTimestamps)
    /\ LET timestamp == sortedTimestamps[idx]
           point == dataByTs[timestamp]
           emit == IsEvent(results, lastDoor, point)
           gap == /\ Len(results) > 0
                  /\ GapBefore(timestamp, results[Len(results)].timestamp)
           synth == IF gap
                    THEN <<SyntheticPoint(timestamp, carriedTemps, lastDoor, lastLocation)>>
                    ELSE <<>>
           real == RealPoint(timestamp, carriedTemps, lastDoor, lastLocation, point)
       IN  /\ IF emit
              THEN /\ results' = results \o synth \o <<real>>
                   /\ kinds' = kinds \o [i \in DOMAIN synth |-> "synthetic"] \o <<"real">>
                   /\ lastDoor' = real.doorStatus
                   /\ carriedTemps' = real.temperatures
                   /\ lastLocation' = real.location
              ELSE /\ carriedTemps' = Absent
                   /\ UNCHANGED <<results, kinds, lastDoor, lastLocation>>
           /\ visited' = Append(visited,
                  [timestamp |-> timestamp, emitted |-> emit,
                   lastDoor |-> lastDoor, carriedTemps |-> carriedTemps,
                   lastLocation |-> lastLocation])
    /\ idx' = idx + 1
    /\ pc' = IF idx = Len(sortedTimestamps) THEN "done" ELSE pc
    /\ UNCHANGED <<rawTempData, rawDoorData, trackData, tempData, doorData,
                   dataByTs, sortedTimestamps>>
    /\ UNCHANGED <<fetchVars, tripVars>>

\* lines 430-471: one iteration of the loop over sortedTimestamps; the
\* function returns results when the loop has taken the last timestamp
CompactStep ==
    /\ pc = "merged"
    /\ idx <= Len(sortedTimestamps)
    /\ LET timestamp == sortedTimestamps[idx]
           point == dataByTs[timestamp]
           emit == IsEvent(results, lastDoor, point)
           gap == /\ Len(results) > 0
                  /\ GapBefore(timestamp, results[Len(results)].timestamp)
           synth == IF gap
                    THEN <<SyntheticPoint(timestamp, carriedTemps, lastDoor, lastLocation)>>
                    ELSE <<>>
           real == RealPoint(timestamp, carriedTemps, lastDoor, lastLocation, point)
       IN  /\ IF emit
              THEN /\ results' = results \o synth \o <<real>>
                   /\ kinds' = kinds \o [i \in DOMAIN synth |-> "synthetic"] \o <<"real">>
                   /\ lastDoor' = real.doorStatus
                   /\ carriedTemps' = real.temperatures
                   /\ lastLocation' = real.location
              ELSE UNCHANGED <<results, kinds, lastDoor, carriedTemps, lastLocation>>
           /\ visited' = Append(visited,
                  [timestamp |-> timestamp, emitted |-> emit,
                   lastDoor |-> lastDoor, carriedTemps |-> carriedTemps,
                   lastLocation |-> lastLocation])
    /\ idx' = idx + 1
    /\ pc' = IF idx = Len(sortedTimestamps) THEN "done" ELSE pc
    /\ UNCHANGED <<rawTempData, rawDoorData, trackData, tempData, doorData,
                   dataByTs, sortedTimestamps>>
    /\ UNCHANGED <<fetchVars, tripVars>>

Next == Normalize \/ Merge \/ ReturnEmpty \/ CompactStep

Spec == Init /\ [][Next]_vars

\* the normaliser on its own inputs
NextNorm == Normalize

SpecNorm == InitNorm /\ [][NextNorm]_vars

\* ------------------------------------------- fetching: inputs and state
MaxDays == 9
MaxDuration == 3
MaxWindow == 5

\* what the upstream can answer to a request of each stream: two different
\* temperature readings, an object that is not an array, null, an empty
\* document, and the two ways a request fails
T1 == [timestamp |-> 1, temperature |-> 5, sensor |-> 1, sensorcode |-> <<>>]

T2 == [timestamp |-> 3, temperature |-> 6, sensor |-> 1, sensorcode |-> <<>>]

D1 == [timestamp |-> 2, status |-> "OPEN", sensor |-> 1, sensorcode |-> <<>>]

L1 == [pos_time |-> 3, latitude |-> 10, longitude |-> 20]

Unauthorized == [kind |-> "unauthorized", body |-> <<>>]

Failure == [kind |-> "failure", body |-> <<>>]

Replies(s) ==
    CASE s = "temperature" ->
            {Array(<<T1>>), Array(<<T2>>), [kind |-> "object", body |-> <<T1>>],
             [kind |-> "null", body |-> <<>>], Array(<<>>), Failure, Unauthorized}
      [] s = "door" -> {Array(<<D1>>), Unauthorized}
      [] s = "track" -> {Array(<<L1>>), Failure}

\* HistoricalDataOptions: an absent rangePattern is the empty string, an
\* absent startTime or endTime is Undefined.  Calls are made with complete
\* credentials, so the guards of lines 16 and 319 pass.
Options(rangePattern, startTime, endTime) ==
    [rangePattern |-> rangePattern, startTime |-> startTime, endTime |-> endTime,
     maxDurationMs |-> Undefined]

AllOptions ==
    {Options(r, a, b) : r \in {"", "d0"},
                        a \in {Undefined} \cup 0..MaxDays,
                        b \in {Undefined} \cup 0..MaxDays}

\* the arguments of a direct call of getChunkedHistoricalData
ChunkArgs ==
    [rangePattern : {""}, startTime : 0..MaxWindow, endTime : 0..MaxWindow,
     maxDurationMs : 1..MaxDuration]

\* two concurrent calls: a range pattern, or a window of one or of two track
\* chunks
ConcurrentOptions == {Options("d0", Undefined, Undefined), Options("", 1, 2), Options("", 1, 4)}

NewCall(entry, options) ==
    [entry |-> entry, options |-> options, pc |-> "ready", error |-> "", result |-> <<>>]

NoPipeline ==
    /\ pc = "idle"
    /\ rawTempData = <<>>
    /\ rawDoorData = <<>>
    /\ trackData = <<>>
    /\ tempData = <<>>
    /\ doorData = <<>>
    /\ dataByTs = <<>>
    /\ sortedTimestamps = <<>>
    /\ idx = 1
    /\ results = <<>>
    /\ lastDoor = Absent
    /\ carriedTemps = Absent
    /\ lastLocation = Absent
    /\ kinds = <<>>
    /\ visited = <<>>

InitCalls(entry, ids, optionSet) ==
    /\ calls \in [ids -> {NewCall(entry, o) : o \in optionSet}]
    /\ streams = [c \in ids |-> [s \in StreamNames |-> NotStarted]]
    /\ requests = [c \in ids |-> [s \in StreamNames |-> <<>>]]
    /\ NoPipeline
    /\ NoTrips

\* one call of getHistoricalData with any options
InitFetch == InitCalls("getHistoricalData", {1}, AllOptions)

\* one call of getChunkedHistoricalData with any window and chunk duration
InitChunk == InitCalls("getChunkedHistoricalData", {1}, ChunkArgs)

\* two calls of getHistoricalData in flight together
InitConcurrent == InitCalls("getHistoricalData", {1, 2}, ConcurrentOptions)

\* ------------------------------------------------------ fetching: actions
\* the activation record the accumulators of call c live in
FrameShared(c) == 1

Frame(c) == c

\* the streams whose fetch is started before the first await
Started == StreamNames

\* await Promise.all and lines 347-472, or the return of a direct
\* getChunkedHistoricalData call, once nothing is left to wait for
Settled(call, strs) ==
    IF call.pc = "chunking" /\ strs["temperature"].resolved
    THEN {[call EXCEPT !.pc = "returned", !.result = strs["temperature"].value.body]}
    ELSE IF call.pc = "awaiting" /\ \A s \in StreamNames : strs[s].resolved
    THEN IF \E s \in StreamNames : Throws(strs[s].value)
         THEN {[call EXCEPT !.pc = "thrown",
                            !.error = ErrorOf(strs[CHOOSE s \in StreamNames :
                                                      Throws(strs[s].value)].value)]}
         ELSE {[call EXCEPT !.pc = "returned", !.result = res] :
                   res \in HistoricalData(strs["temperature"].value,
                                          strs["door"].value, strs["track"].value)}
    ELSE {call}

\* the chunked path taken whenever no range pattern is given
ModeChunkedByDefault(o) == IF o.rangePattern # "" THEN "range" ELSE "chunked"

\* lines 321-339: the mode getHistoricalData takes for its options
Mode(o) ==
    IF o.rangePattern # "" THEN "range"
    ELSE IF Truthy(o.startTime) /\ Truthy(o.endTime) THEN "chunked"
    ELSE "none"

\* lines 328-336: what each stream has done when Promise.all is reached
Start(o, s) ==
    IF s \notin Started THEN [stream |-> NotStarted, log |-> <<>>]
    ELSE IF Mode(o) = "range" THEN startRange
    ELSE getChunkedHistoricalData(o.startTime, o.endTime, maxDurationMs(s))

\* getHistoricalData up to the await of line 341
Invoke ==
    /\ \E c \in DOMAIN calls :
         /\ calls[c].pc = "ready"
         /\ calls[c].entry = "getHistoricalData"
         /\ LET o == calls[c].options
            IN  IF Mode(o) = "none"
                THEN /\ calls' = [calls EXCEPT ![c].pc = "thrown",
                                               ![c].error = ConfigurationError]
                     /\ UNCHANGED <<streams, requests>>
                ELSE LET strs == [s \in StreamNames |-> Start(o, s).stream]
                     IN  /\ streams' = [streams EXCEPT ![c] = strs]
                         /\ requests' = [requests EXCEPT
                                ![c] = [s \in StreamNames |-> Start(o, s).log]]
                         /\ \E call \in Settled([calls[c] EXCEPT !.pc = "awaiting"], strs) :
                                calls' = [calls EXCEPT ![c] = call]
    /\ UNCHANGED <<pipelineVars, tripVars>>

\* a direct call of getChunkedHistoricalData up to its first await
InvokeChunked ==
    /\ \E c \in DOMAIN calls :
         /\ calls[c].pc = "ready"
         /\ calls[c].entry = "getChunkedHistoricalData"
         /\ LET o == calls[c].options
                started == getChunkedHistoricalData(o.startTime, o.endTime, o.maxDurationMs)
                strs == [streams[c] EXCEPT !["temperature"] = started.stream]
            IN  /\ streams' = [streams EXCEPT ![c] = strs]
                /\ requests' = [requests EXCEPT ![c]["temperature"] = started.log]
                /\ \E call \in Settled([calls[c] EXCEPT !.pc = "chunking"], strs) :
                       calls' = [calls EXCEPT ![c] = call]
    /\ UNCHANGED <<pipelineVars, tripVars>>

\* an apiRequest settles and the code waiting for it runs until it has to
\* wait again: the catch of range-pattern mode, or the rest of the loop body
\* of getChunkedHistoricalData and the request of the next chunk; when this
\* was the last stream, the rest of getHistoricalData
Respond ==
    /\ \E c \in DOMAIN calls : \E s \in StreamNames : \E i \in DOMAIN requests[c][s] :
         /\ requests[c][s][i].reply = Pending
         /\ \E reply \in Replies(s) :
              LET log == [requests[c][s] EXCEPT ![i].reply = reply]
                  st == [streams[c][s] EXCEPT !.allData = streams[Frame(c)][s].allData]
                  after == IF st.mode = "range"
                           THEN OnRangeReply(st, log, reply)
                           ELSE OnChunkReply(st, log, log[i].to, reply)
                  streams1 == [[streams EXCEPT ![c][s] = after.stream]
                                  EXCEPT ![Frame(c)][s].allData = after.stream.allData]
              IN  /\ requests' = [requests EXCEPT ![c][s] = after.log]
                  /\ streams' = streams1
                  /\ \E call \in Settled(calls[c], streams1[c]) :
                         calls' = [calls EXCEPT ![c] = call]
    /\ UNCHANGED <<pipelineVars, tripVars>>

NextFetch == Invoke \/ Respond

SpecFetch == InitFetch /\ [][NextFetch]_vars

SpecConcurrent == InitConcurrent /\ [][NextFetch]_vars

NextChunk == InvokeChunked \/ Respond

SpecChunk == InitChunk /\ [][NextChunk]_vars

\* every request is answered or fails in the end, and the code waiting for
\* it is resumed
SpecChunkLive == SpecChunk /\ WF_vars(NextChunk)

\* ------------------------------------------------------------ TripReport
MaxToggles == 4
MaxTrips == 2

\* trips are identified by their startTime
TripIds == 1..MaxTrips

\* what getHistoricalData resolves to for a trip, or the error it rejects with
TripDetails(request, outcome) ==
    [trip |-> request.trip, request |-> request.request, outcome |-> outcome]

InitTrips ==
    /\ NoTrips
    /\ NoPipeline
    /\ NoCalls

\* toggleTrip up to its await: the expanded trip is collapsed, or another trip
\* is expanded and its details are requested
ToggleTrip ==
    /\ toggles < MaxToggles
    /\ toggles' = toggles + 1
    /\ \E tripId \in TripIds :
         IF expandedTripId = tripId
         THEN /\ expandedTripId' = NoTrip
              /\ expandedTripData' = Absent
              /\ UNCHANGED <<isTripDetailsLoading, tripDetailsError, tripRequests>>
         ELSE /\ expandedTripId' = tripId
              /\ isTripDetailsLoading' = TRUE
              /\ tripDetailsError' = ""
              /\ expandedTripData' = Absent
              /\ tripRequests' = tripRequests \cup {[request |-> toggles + 1, trip |-> tripId]}
    /\ UNCHANGED <<pipelineVars, fetchVars>>

\* an awaited getHistoricalData settles: toggleTrip resumes in the try, or in
\* the catch, and then runs the finally
TripResponse ==
    /\ \E r \in tripRequests : \E outcome \in {"data", "error"} :
         /\ tripRequests' = tripRequests \ {r}
         /\ expandedTripData' = Some(TripDetails(r, outcome))
         /\ tripDetailsError' = IF outcome = "error" THEN "Could not load trip details."
                                ELSE tripDetailsError
         /\ isTripDetailsLoading' = FALSE
    /\ UNCHANGED <<expandedTripId, toggles>>
    /\ UNCHANGED <<pipelineVars, fetchVars>>

NextTrips == ToggleTrip \/ TripResponse

SpecTrips == InitTrips /\ [][NextTrips]_vars

\* ------------------------------------------------- properties: vocabulary
IsFinite(t) == t # NaN

\* a < b on numbers: false as soon as one side is NaN
Lt(a, b) == IsFinite(a) /\ IsFinite(b) /\ a < b

IsReal(i) == kinds[i] = "real"

\* the snapshot an emitted real point was built from
SnapshotOf(i) == dataByTs[results[i].timestamp]

\* real points i < j with no real point between them
ConsecutiveReal(i, j) ==
    /\ i < j /\ IsReal(i) /\ IsReal(j)
    /\ \A k \in DOMAIN results : (i < k /\ k < j) => ~IsReal(k)

\* a timestamp string that Date parses
Parseable(s) == s # Undefined /\ s # InvalidDate

\* readings of the normalised streams that carry a parseable timestamp, a
\* sensor id and the quantity
AcceptedTemp(d) == Parseable(d.timestamp) /\ Truthy(d.sensor) /\ IsNumber(d.temperature)
AcceptedDoor(d) == Parseable(d.timestamp) /\ Truthy(d.sensor) /\ d.status # UndefinedStatus
AcceptedTrack(d) ==
    Parseable(d.pos_time) /\ (IsNumber(d.latitude) \/ IsNumber(d.longitude))

\* positions in data of the accepted readings of sensor s no later than t
Upto(data, Accepted(_), s, t) ==
    {i \in DOMAIN data : Accepted(data[i]) /\ data[i].sensor = s
                         /\ IsFinite(t) /\ data[i].timestamp <= t}

\* the latest of them: greatest timestamp, then last in stream order
Latest(data, I) ==
    CHOOSE i \in I : \A j \in I :
        \/ data[j].timestamp < data[i].timestamp
        \/ (data[j].timestamp = data[i].timestamp /\ j <= i)

SensorsUpto(data, Accepted(_), t) ==
    {s \in {data[i].sensor : i \in DOMAIN data} : Upto(data, Accepted, s, t) # {}}

ExpectedTemps(t) ==
    [s \in SensorsUpto(tempData, AcceptedTemp, t) |->
        tempData[Latest(tempData, Upto(tempData, AcceptedTemp, s, t))].temperature]

ExpectedDoors(t) ==
    [s \in SensorsUpto(doorData, AcceptedDoor, t) |->
        DoorValue(doorData[Latest(doorData, Upto(doorData, AcceptedDoor, s, t))].status)]

TracksUpto(t) ==
    {i \in DOMAIN trackData : AcceptedTrack(trackData[i]) /\ IsFinite(t)
                              /\ trackData[i].pos_time <= t}

\* the accepted location samples that carry the greatest timestamp no later than t
LatestTracks(t) ==
    {i \in TracksUpto(t) : \A j \in TracksUpto(t) :
        trackData[j].pos_time <= trackData[i].pos_time}

LocationOf(d) == [lat |-> ToDegrees(d.latitude), lng |-> ToDegrees(d.longitude)]

\* --------------------------------------------------------------- claims

\* C1: in the array getHistoricalData returns, timestamps strictly increase
\* from each element to the next, synthetic points included.
C1_StrictlyIncreasing ==
    pc = "done" =>
        \A i \in 1..(Len(results) - 1) :
            Lt(results[i].timestamp, results[i + 1].timestamp)

\* C2: two consecutive emitted real events more than 1 ms apart have a
\* synthetic point at (later timestamp - 1) between them.
C2_GapBoundary ==
    \A i, j \in DOMAIN results :
        ( /\ ConsecutiveReal(i, j)
          /\ IsFinite(results[i].timestamp) /\ IsFinite(results[j].timestamp)
          /\ results[j].timestamp - results[i].timestamp > 1 )
        => \E k \in DOMAIN results :
              /\ i < k /\ k < j
              /\ kinds[k] = "synthetic"
              /\ results[k].timestamp = results[j].timestamp - 1

C2_Witness ==
    /\ pc = "done"
    /\ \E i, j \in DOMAIN results :
          /\ ConsecutiveReal(i, j)
          /\ results[i].timestamp = 1 /\ results[j].timestamp = 3
          /\ j = i + 2 /\ results[i + 1].timestamp = 2

\* C3: every real point at timestamp t holds, per sensor, the value of the
\* latest accepted temperature reading and door reading no later than t, and
\* the latest accepted location sample no later than t (null if none).
C3_MostRecentValue ==
    pc = "done" =>
        \A i \in DOMAIN results : IsReal(i) =>
            LET p == results[i]
                t == p.timestamp
            IN  /\ OrEmpty(p.temperatures) = ExpectedTemps(t)
                /\ OrEmpty(p.doorStatus) = ExpectedDoors(t)
                /\ IF LatestTracks(t) = {}
                   THEN p.location = Absent
                   ELSE \E n \in LatestTracks(t) :
                           p.location = Some(LocationOf(trackData[n]))

\* C4: an emitted point, real or synthetic, whose snapshot brings no new
\* temperature data has the temperatures of the nearest preceding output point
\* that had temperature data, and null if there is none.
BringsTemps(i) == IsReal(i) /\ HasKeys(SnapshotOf(i).temperatures)

PrecedingWithTemps(i) == {j \in DOMAIN results : j < i /\ BringsTemps(j)}

C4_TemperatureCarryForward ==
    \A i \in DOMAIN results : ~BringsTemps(i) =>
        IF PrecedingWithTemps(i) = {}
        THEN results[i].temperatures = Absent
        ELSE results[i].temperatures = results[SetMax(PrecedingWithTemps(i))].temperatures

C4_Witness ==
    /\ pc = "done"
    /\ \E i, j \in DOMAIN results :
          /\ i < j /\ BringsTemps(i)
          /\ IsReal(j) /\ ~BringsTemps(j)
          /\ results[j].temperatures # Absent
    /\ \E i \in DOMAIN results : ~BringsTemps(i) /\ results[i].temperatures = Absent

\* C5: a snapshot other than the first that has no temperature entry and no
\* location, and whose door entries all equal the carried door state, is not
\* emitted as an event.
UnchangedDoorOnly(n) ==
    LET v == visited[n]
        point == dataByTs[v.timestamp]
    IN  /\ n > 1
        /\ ~HasKeys(point.temperatures)
        /\ ~IsSome(point.location)
        /\ HasKeys(point.doorStatus)
        /\ IsSome(v.lastDoor)
        /\ \A d \in DOMAIN Get(point.doorStatus) :
              /\ d \in DOMAIN Get(v.lastDoor)
              /\ Get(v.lastDoor)[d] = Get(point.doorStatus)[d]

C5_DoorCompaction ==
    \A n \in DOMAIN visited : UnchangedDoorOnly(n) =>
        /\ ~visited[n].emitted
        /\ \A i \in DOMAIN results :
              IsReal(i) => results[i].timestamp # visited[n].timestamp

\* Open at 1, still Open at 2, Closed at 3: real events at 1 and 3 only
C5_Witness ==
    /\ pc = "done"
    /\ Len(visited) = 3
    /\ UnchangedDoorOnly(2)
    /\ visited[2].timestamp = 2
    /\ {results[i].timestamp : i \in {k \in DOMAIN results : IsReal(k)}} = {1, 3}

\* ---------------------------------------------- normaliser: vocabulary
\* a reading carries an explicit id: a numeric one, or a hex code that parses
HasExplicitId(d) == d.sensor # Undefined \/ ParseInt16(d.sensorcode) # NaN

ExplicitIdOf(d) == IF d.sensor # Undefined THEN d.sensor ELSE ParseInt16(d.sensorcode)

\* a reading with a parseable timestamp and its quantity
WellFormed(d, valueKey) == Parseable(d.timestamp) /\ HasValue(d, valueKey)

\* K: the greatest number of anonymous readings in one timestamp group
AnonymousAt(raw, valueKey, t) ==
    {i \in DOMAIN raw : WellFormed(raw[i], valueKey) /\ raw[i].timestamp = t
                        /\ ~HasExplicitId(raw[i])}

PoolK(raw, valueKey) ==
    LET counts == {Cardinality(AnonymousAt(raw, valueKey, raw[i].timestamp)) :
                      i \in {j \in DOMAIN raw : WellFormed(raw[j], valueKey)}}
    IN  IF counts = {} THEN 0 ELSE SetMax(counts)

\* M: the largest explicit id (of the readings the normaliser keeps), 0 if none
PoolM(raw, valueKey) ==
    LET ids == {ExplicitIdOf(raw[i]) :
                   i \in {j \in DOMAIN raw : WellFormed(raw[j], valueKey)
                                             /\ HasExplicitId(raw[j])}}
    IN  IF ids = {} THEN 0 ELSE SetMax(ids)

\* the ids of the result that are not the explicit id of the reading itself
FabricatedIds(raw, out) ==
    {out[j].sensor : j \in {k \in DOMAIN out :
        /\ out[k].sensor # Undefined
        /\ \/ ~HasExplicitId(raw[out[k].id])
           \/ out[k].sensor # ExplicitIdOf(raw[out[k].id])}}

\* C6: the fabricated ids of one assignStableIds call are exactly M+1 .. M+K.
PoolSize(raw, out, valueKey) ==
    FabricatedIds(raw, out) =
        (PoolM(raw, valueKey) + 1)..(PoolM(raw, valueKey) + PoolK(raw, valueKey))

C6_PoolSize ==
    pc = "normalized" =>
        /\ PoolSize(rawTempData, tempData, "temperature")
        /\ PoolSize(rawDoorData, doorData, "status")

\* C7: when every reading carries an explicit numeric id, assignStableIds
\* returns its input unchanged, and normalising the result again changes nothing.
AllExplicit(data) == \A i \in DOMAIN data : data[i].sensor # Undefined

Unchanged(raw, out, valueKey) ==
    AllExplicit(normalizeSensorData(raw)) =>
        /\ out = normalizeSensorData(raw)
        /\ assignStableIds(out, valueKey) = out

C7_NormalizerIdempotence ==
    pc = "normalized" =>
        /\ Unchanged(rawTempData, tempData, "temperature")
        /\ Unchanged(rawDoorData, doorData, "status")

\* C8: every reading with an explicit id, numeric or a hex code that parses,
\* keeps exactly that id through normalisation, whatever the id is.
ExplicitKept(raw, out) ==
    \A j \in DOMAIN out :
        HasExplicitId(raw[out[j].id]) => out[j].sensor = ExplicitIdOf(raw[out[j].id])

C8_ExplicitIdsKept ==
    pc = "normalized" =>
        /\ ExplicitKept(rawTempData, tempData)
        /\ ExplicitKept(rawDoorData, doorData)

\* C9: a temperature or door reading with a missing or unparseable timestamp,
\* or without its quantity, produces no snapshot, no output point and no
\* sensor entry.
KeyHasSource(ts) ==
    \/ \E i \in DOMAIN tempData : AcceptedTemp(tempData[i]) /\ tempData[i].timestamp = ts
    \/ \E i \in DOMAIN doorData : AcceptedDoor(doorData[i]) /\ doorData[i].timestamp = ts
    \/ \E i \in DOMAIN trackData : AcceptedTrack(trackData[i]) /\ trackData[i].pos_time = ts

C9_MalformedDropped ==
    pc \in {"merged", "done"} =>
        /\ \A ts \in DOMAIN dataByTs :
              /\ IsFinite(ts)
              /\ KeyHasSource(ts)
              /\ \A s \in DOMAIN OrEmpty(dataByTs[ts].temperatures) :
                    \E i \in DOMAIN tempData :
                        /\ AcceptedTemp(tempData[i])
                        /\ tempData[i].timestamp = ts /\ tempData[i].sensor = s
                        /\ tempData[i].temperature = Get(dataByTs[ts].temperatures)[s]
              /\ \A s \in DOMAIN OrEmpty(dataByTs[ts].doorStatus) :
                    \E i \in DOMAIN doorData :
                        /\ AcceptedDoor(doorData[i])
                        /\ doorData[i].timestamp = ts /\ doorData[i].sensor = s
                        /\ DoorValue(doorData[i].status) = Get(dataByTs[ts].doorStatus)[s]
        /\ \A i \in DOMAIN results : IsFinite(results[i].timestamp)

\* C10: a reading whose only identifier is a hex code that does not parse is
\* left without a sensor id, and its value appears under no sensor key of any
\* output point.
OnlyBadHex(d) ==
    d.sensor = Undefined /\ d.sensorcode # <<>> /\ ParseInt16(d.sensorcode) = NaN

C10_BadHexExcluded ==
    pc = "done" =>
        \A i \in DOMAIN rawTempData : OnlyBadHex(rawTempData[i]) =>
            /\ \A j \in DOMAIN tempData :
                  tempData[j].id = i => tempData[j].sensor = Undefined
            /\ (\A j \in DOMAIN rawTempData :
                    j # i => rawTempData[j].temperature # rawTempData[i].temperature)
               => \A n \in DOMAIN results :
                     \A s \in DOMAIN OrEmpty(results[n].temperatures) :
                        Get(results[n].temperatures)[s] # rawTempData[i].temperature

\* ------------------------------------------ fetching: property vocabulary
\* the records a settled request contributes
RecordsOf(reply) == IF reply.kind \in {"array", "object"} THEN reply.body ELSE <<>>

\* the records of the requests of one stream, in the order of the requests
Concatenation(log) == Flatten([i \in DOMAIN log |-> RecordsOf(log[i].reply)])

\* the instants of the half-open window [from, to)
Instants(from, to) == {t \in 0..(MaxWindow + MaxDuration + MaxDays) : from <= t /\ t < to}

ChunkLog(c) == requests[c]["temperature"]

IsChunkCall(c) ==
    /\ calls[c].entry = "getChunkedHistoricalData"
    /\ calls[c].pc \in {"chunking", "returned"}

\* ---------------------------------------------------------------- claims
\* C11 (chunk coverage): for startTime < endTime and a maximum chunk duration
\* D >= 1, the windows requested by getChunkedHistoricalData start at
\* startTime, each starts where the one before ended, every window but the
\* last is D long, and once the call has returned the last window ends at
\* endTime and is at most D long, no two windows overlap, their union is
\* exactly [startTime, endTime), and the value returned is the concatenation
\* of the chunk results in the order of the windows.
C11_ChunkCoverage ==
    \A c \in DOMAIN calls :
        LET o == calls[c].options
            log == ChunkLog(c)
            n == Len(log)
        IN  (IsChunkCall(c) /\ o.startTime < o.endTime) =>
              /\ n >= 1
              /\ log[1].from = o.startTime
              /\ \A i \in 1..(n - 1) :
                    /\ log[i + 1].from = log[i].to
                    /\ log[i].to - log[i].from = o.maxDurationMs
              /\ \A i \in 1..n : log[i].from < log[i].to /\ log[i].to <= o.endTime
              /\ calls[c].pc = "returned" =>
                    /\ log[n].to = o.endTime
                    /\ log[n].to - log[n].from <= o.maxDurationMs
                    /\ \A i, j \in 1..n :
                          i # j => Instants(log[i].from, log[i].to)
                                     \cap Instants(log[j].from, log[j].to) = {}
                    /\ UNION {Instants(log[i].from, log[i].to) : i \in 1..n}
                          = Instants(o.startTime, o.endTime)
                    /\ calls[c].result = Concatenation(log)

\* a window of five days fetched in chunks of two: [0,2), [2,4) and the
\* clipped [4,5), with different records from the first and the last chunk
C11_Witness ==
    \E c \in DOMAIN calls :
        /\ IsChunkCall(c)
        /\ calls[c].pc = "returned"
        /\ calls[c].options.startTime = 0
        /\ calls[c].options.endTime = 5
        /\ calls[c].options.maxDurationMs = 2
        /\ Len(ChunkLog(c)) = 3
        /\ ChunkLog(c)[3].from = 4
        /\ ChunkLog(c)[3].to = 5
        /\ calls[c].result = <<T2, T1, T1>>

\* C12 (chunk failure isolation): a failed chunk request neither fails
\* getChunkedHistoricalData nor is retried: no window is requested twice, the
\* chunk after a failed one is requested, the call never throws, and it
\* returns, in chunk order, the records of exactly the chunks that succeeded.
C12_ChunkFailureIsolation ==
    \A c \in DOMAIN calls :
        LET o == calls[c].options
            log == ChunkLog(c)
            ok == SelectSeq(log, LAMBDA r : ~Throws(r.reply))
        IN  IsChunkCall(c) =>
              /\ calls[c].pc # "thrown"
              /\ \A i, j \in DOMAIN log : i # j => log[i].from # log[j].from
              /\ \A i \in DOMAIN log :
                    (Throws(log[i].reply) /\ log[i].to < o.endTime) =>
                        /\ i < Len(log)
                        /\ log[i + 1].from = log[i].to
              /\ calls[c].pc = "returned" =>
                    /\ o.startTime < o.endTime => log[Len(log)].to = o.endTime
                    /\ \A i \in DOMAIN log : log[i].reply # Pending
                    /\ calls[c].result = Concatenation(ok)

\* three chunks, the middle one failed: the call returns the records of the
\* first and of the third
C12_Witness ==
    \E c \in DOMAIN calls :
        /\ IsChunkCall(c)
        /\ calls[c].pc = "returned"
        /\ Len(ChunkLog(c)) = 3
        /\ ChunkLog(c)[1].reply = Array(<<T1>>)
        /\ Throws(ChunkLog(c)[2].reply)
        /\ ChunkLog(c)[3].reply = Array(<<T2>>)
        /\ calls[c].result = <<T1, T2>>

InFlight(c, s) == {i \in DOMAIN requests[c][s] : requests[c][s][i].reply = Pending}

InFlightOf(c) == UNION {{<<s, i>> : i \in InFlight(c, s)} : s \in StreamNames}

\* C13 (sequential chunking): in every stream of a getHistoricalData call only
\* the request issued last can be in flight, every request before it has
\* completed with a result or an error, so at most one request per stream and
\* at most three per call are in flight at any time.
C13_SequentialChunking ==
    \A c \in DOMAIN calls :
        /\ \A s \in StreamNames :
              /\ \A i \in 1..(Len(requests[c][s]) - 1) : requests[c][s][i].reply # Pending
              /\ Cardinality(InFlight(c, s)) <= 1
        /\ Cardinality(InFlightOf(c)) <= 3

\* the second chunk of every stream has been requested after the first one
\* completed (with an error for the door stream), three requests in flight
C13_Witness ==
    \E c \in DOMAIN calls :
        /\ calls[c].pc = "awaiting"
        /\ \A s \in StreamNames :
              /\ Len(requests[c][s]) = 2
              /\ InFlight(c, s) = {2}
        /\ Throws(requests[c]["door"][1].reply)
        /\ Cardinality(InFlightOf(c)) = 3

\* what a stream must resolve to, told from the answers to its own requests:
\* in range-pattern mode the answer, or an empty list when the request failed;
\* in chunked mode the records of the chunks that succeeded
Expected(c, s) ==
    LET log == requests[c][s]
    IN  IF streams[c][s].mode = "range"
        THEN IF Throws(log[1].reply) THEN Array(<<>>) ELSE log[1].reply
        ELSE Array(Concatenation(log))

ExpectedResults(c) ==
    HistoricalData(Expected(c, "temperature"), Expected(c, "door"), Expected(c, "track"))

AllSettled(c) ==
    \A s \in StreamNames : streams[c][s].resolved /\ InFlight(c, s) = {}

FailedStream(c, s) ==
    /\ requests[c][s] # <<>>
    /\ \A i \in DOMAIN requests[c][s] : Throws(requests[c][s][i].reply)

\* C14 (stream independence): once getHistoricalData waits on Promise.all the
\* fetch of each of the three streams has been started; it returns only when
\* all three have resolved; it never fails because a request failed; a stream
\* whose requests failed resolves to an empty list, and the result is the one
\* computed from that empty list and the full records of the other streams.
C14_StreamIndependence ==
    \A c \in DOMAIN calls :
        /\ calls[c].pc \in {"awaiting", "returned"} =>
              \A s \in StreamNames : streams[c][s].mode # "none"
        /\ calls[c].pc = "thrown" => \A s \in StreamNames : requests[c][s] = <<>>
        /\ calls[c].pc = "returned" =>
              /\ AllSettled(c)
              /\ \A s \in StreamNames :
                    FailedStream(c, s) => streams[c][s].value = Array(<<>>)
              /\ calls[c].result \in ExpectedResults(c)

\* range-pattern mode, the temperature request failed: the result holds the
\* door reading and the position of the other two streams
C14_Witness ==
    \E c \in DOMAIN calls :
        /\ calls[c].pc = "returned"
        /\ calls[c].options.rangePattern = "d0"
        /\ FailedStream(c, "temperature")
        /\ requests[c]["door"][1].reply = Array(<<D1>>)
        /\ requests[c]["track"][1].reply = Array(<<L1>>)
        /\ Len(calls[c].result) = 2
        /\ calls[c].result[1].doorStatus = Some((1 :> 1))
        /\ calls[c].result[2].location = Some([lat |-> 10, lng |-> 20])
        /\ calls[c].result[2].temperatures = Absent

GotUnauthorized(c) ==
    \E s \in StreamNames : \E i \in DOMAIN requests[c][s] :
        requests[c][s][i].reply = Unauthorized

\* C15 (authentication errors are fatal): a getHistoricalData call one of
\* whose requests was answered 401 does not return a result; it ends by
\* throwing the authentication error, and no window is requested again.
C15_AuthenticationFatal ==
    \A c \in DOMAIN calls :
        GotUnauthorized(c) =>
            /\ calls[c].pc # "returned"
            /\ calls[c].pc = "thrown" => calls[c].error = AuthenticationFailed
            /\ \A s \in StreamNames : \A i, j \in DOMAIN requests[c][s] :
                  i # j => requests[c][s][i].from # requests[c][s][j].from

NoRangeMode(o) ==
    /\ o.rangePattern = ""
    /\ o.startTime = Undefined \/ o.endTime = Undefined

\* C16 (configuration error): a getHistoricalData call given neither a range
\* pattern nor both startTime and endTime ends by throwing the configuration
\* error, and no request has been issued for it.
C16_ConfigurationError ==
    \A c \in DOMAIN calls :
        (NoRangeMode(calls[c].options) /\ calls[c].pc # "ready") =>
            /\ calls[c].pc = "thrown"
            /\ calls[c].error = ConfigurationError
            /\ \A s \in StreamNames : requests[c][s] = <<>>

\* only endTime was given
C16_Witness ==
    \E c \in DOMAIN calls :
        /\ calls[c].options = Options("", Undefined, 3)
        /\ calls[c].pc = "thrown"
        /\ calls[c].error = ConfigurationError

ExplicitWindow(o) ==
    /\ o.rangePattern = ""
    /\ o.startTime # Undefined
    /\ o.endTime # Undefined
    /\ o.startTime < o.endTime

\* C17 (explicit-window mode): a getHistoricalData call given no range pattern
\* and startTime < endTime, startTime = 0 included, does not throw the
\* configuration error and fetches every stream in chunks, of at most seven
\* days for temperature and door and of at most two days for track.
C17_ExplicitWindowChunked ==
    \A c \in DOMAIN calls :
        (ExplicitWindow(calls[c].options) /\ calls[c].pc # "ready") =>
            /\ calls[c].pc # "thrown"
            /\ \A s \in StreamNames :
                  /\ streams[c][s].mode = "chunked"
                  /\ streams[c][s].maxDurationMs =
                        (IF s = "track" THEN TWO_DAYS_MS ELSE SEVEN_DAYS_MS)
                  /\ requests[c][s] # <<>>
                  /\ requests[c][s][1].from = calls[c].options.startTime

\* the records a chunked stream has accumulated so far, told from the answers
\* to its own requests
OwnData(c, s) ==
    Concatenation(SelectSeq(requests[c][s], LAMBDA r : r.reply # Pending))

\* C18 (isolation of concurrent invocations): with two getHistoricalData calls
\* in flight, under every interleaving of the completions of their requests,
\* the accumulated data of every stream of a call holds the records answered
\* to that call's own requests and nothing else, and the call returns a result
\* it can return when it runs alone on the same answers.
C18_ConcurrentIsolation ==
    \A c \in DOMAIN calls :
        /\ \A s \in StreamNames :
              streams[c][s].mode = "chunked" => streams[c][s].allData = OwnData(c, s)
        /\ calls[c].pc = "returned" =>
              /\ \A s \in StreamNames : streams[c][s].value = Expected(c, s)
              /\ calls[c].result \in ExpectedResults(c)

\* both calls are waiting for the second track chunk; the first chunk gave a
\* position to one call and nothing to the other, and one call has its
\* temperature reading while the other still waits for it
C18_Witness ==
    /\ DOMAIN calls = {1, 2}
    /\ \A c \in {1, 2} :
          /\ calls[c].pc = "awaiting"
          /\ Len(requests[c]["track"]) = 2
          /\ InFlight(c, "track") = {2}
    /\ streams[1]["track"].allData = <<L1>>
    /\ streams[2]["track"].allData = <<>>
    /\ streams[2]["temperature"].allData = <<T2>>
    /\ InFlight(1, "temperature") = {1}

\* the snapshot processed n-th produced a real output point
Emitted(n) ==
    \E i \in DOMAIN results : IsReal(i) /\ results[i].timestamp = visited[n].timestamp

\* the carried door map merged with the door readings of the snapshot
MergedDoors(carried, point) == Spread(OrEmpty(carried), OrEmpty(point.doorStatus))

\* C19 (emit rule): a snapshot produces a real output point if and only if it
\* is the first snapshot, or it has a temperature entry, or the door map
\* obtained by merging it into the carried door map differs from the carried
\* door map, or it has a location; a snapshot with a location and nothing else
\* is emitted.
C19_EmitRule ==
    \A n \in DOMAIN visited :
        LET point == dataByTs[visited[n].timestamp]
            carried == visited[n].lastDoor
        IN  Emitted(n) <=>
              \/ n = 1
              \/ (IsSome(point.temperatures) /\ DOMAIN Get(point.temperatures) # {})
              \/ Some(MergedDoors(carried, point)) # carried
              \/ IsSome(point.location)

\* a later snapshot that has a location only, while a door state is carried
C19_Witness ==
    \E n \in DOMAIN visited :
        LET point == dataByTs[visited[n].timestamp]
        IN  /\ n > 1
            /\ IsSome(visited[n].lastDoor)
            /\ ~IsSome(point.temperatures)
            /\ ~IsSome(point.doorStatus)
            /\ IsSome(point.location)
            /\ Emitted(n)

\* C20 (synthetic point content): a synthetic boundary point is never first,
\* follows a real point, and has the temperatures, doorStatus and location of
\* that preceding element, not those of the real point built from the
\* snapshot it precedes.
C20_SyntheticContent ==
    \A i \in DOMAIN results :
        kinds[i] = "synthetic" =>
            /\ i > 1
            /\ IsReal(i - 1)
            /\ results[i].temperatures = results[i - 1].temperatures
            /\ results[i].doorStatus = results[i - 1].doorStatus
            /\ results[i].location = results[i - 1].location

\* a boundary point before a snapshot that changes the door and brings the
\* first location
C20_Witness ==
    \E i \in DOMAIN results :
        /\ kinds[i] = "synthetic"
        /\ i < Len(results)
        /\ results[i].doorStatus = Some((1 :> 0))
        /\ results[i + 1].doorStatus = Some((1 :> 1))
        /\ results[i].location = Absent
        /\ IsSome(results[i + 1].location)

\* the rank of reading i among the anonymous readings of its timestamp group,
\* in source order
AnonRank(raw, valueKey, i) ==
    Cardinality({k \in AnonymousAt(raw, valueKey, raw[i].timestamp) : k <= i})

InOrder(raw, out, valueKey) ==
    \A i \in DOMAIN raw :
        (WellFormed(raw[i], valueKey) /\ ~HasExplicitId(raw[i])) =>
            \E j \in DOMAIN out :
                /\ out[j].id = i
                /\ out[j].sensor = PoolM(raw, valueKey) + AnonRank(raw, valueKey, i)

\* C21 (deterministic anonymous assignment): in the result of assignStableIds
\* the i-th anonymous reading, in source order, of each timestamp group has
\* the sensor id M + i, M being the largest explicit id of the input (0 when
\* there is none).
C21_AnonymousInOrder ==
    pc = "normalized" =>
        /\ InOrder(rawTempData, tempData, "temperature")
        /\ InOrder(rawDoorData, doorData, "status")

\* the accepted temperature readings with the timestamp and sensor id of
\* tempData[j]
SameSlot(j) ==
    {k \in DOMAIN tempData :
        /\ AcceptedTemp(tempData[k])
        /\ tempData[k].timestamp = tempData[j].timestamp
        /\ tempData[k].sensor = tempData[j].sensor}

\* the one of them that comes last in the stream as it was fetched
LastInStream(j) ==
    CHOOSE k \in SameSlot(j) : \A l \in SameSlot(j) : tempData[l].id <= tempData[k].id

\* C22 (temperature merge is last-write-wins): for every accepted temperature
\* reading, the snapshot of its timestamp, and the output point of that
\* timestamp, hold under its sensor id the value of the last reading, in the
\* order of the fetched stream, among the accepted readings with the same
\* sensor id and timestamp.
C22_TemperatureLastWins ==
    pc \in {"merged", "done"} =>
        \A j \in DOMAIN tempData : AcceptedTemp(tempData[j]) =>
            LET ts == tempData[j].timestamp
                sensor == tempData[j].sensor
                value == tempData[LastInStream(j)].temperature
            IN  /\ ts \in DOMAIN dataByTs
                /\ IsSome(dataByTs[ts].temperatures)
                /\ sensor \in DOMAIN Get(dataByTs[ts].temperatures)
                /\ Get(dataByTs[ts].temperatures)[sensor] = value
                /\ pc = "done" =>
                      \E i \in DOMAIN results :
                          /\ IsReal(i)
                          /\ results[i].timestamp = ts
                          /\ Get(results[i].temperatures)[sensor] = value

\* sensor 1 read twice at timestamp 2, 5 and then 6, with an anonymous
\* reading between them: the point of timestamp 2 holds 6
C22_Witness ==
    /\ pc = "done"
    /\ Len(rawTempData) = 3
    /\ rawTempData[1].temperature = 5 /\ rawTempData[1].sensor = 1
    /\ rawTempData[2].sensor = Undefined /\ rawTempData[2].sensorcode = <<>>
    /\ rawTempData[3].temperature = 6 /\ rawTempData[3].sensor = 1
    /\ \A i \in 1..3 : rawTempData[i].timestamp = 2
    /\ Len(results) = 1
    /\ Get(results[1].temperatures)[1] = 6

\* the positions in trackData of the accepted samples of timestamp ts
SamplesAt(ts) ==
    {i \in DOMAIN trackData : AcceptedTrack(trackData[i]) /\ trackData[i].pos_time = ts}

\* C23 (location merge is first-writer-wins): a snapshot has a location
\* exactly when a location sample with a parseable timestamp and at least one
\* numeric coordinate has its timestamp, and the location is that of the first
\* such sample in stream order; a sample with an unparseable timestamp or no
\* numeric coordinate creates no snapshot, so a snapshot without temperature
\* and door data has an accepted sample.
C23_LocationFirstWins ==
    pc \in {"merged", "done"} =>
        /\ \A ts \in DOMAIN dataByTs :
              /\ IsSome(dataByTs[ts].location) <=> SamplesAt(ts) # {}
              /\ SamplesAt(ts) # {} =>
                    LET first == CHOOSE i \in SamplesAt(ts) : \A j \in SamplesAt(ts) : i <= j
                    IN  dataByTs[ts].location = Some(LocationOf(trackData[first]))
              /\ (~IsSome(dataByTs[ts].temperatures) /\ ~IsSome(dataByTs[ts].doorStatus))
                    => SamplesAt(ts) # {}
        /\ \A i \in DOMAIN trackData :
              AcceptedTrack(trackData[i]) => trackData[i].pos_time \in DOMAIN dataByTs

\* two different samples at timestamp 2 and a sample that is not accepted:
\* the snapshot keeps the first of the two and no other snapshot exists
C23_Witness ==
    /\ pc = "done"
    /\ Len(trackData) = 3
    /\ \E i, j, k \in 1..3 :
          /\ i < j
          /\ trackData[i].pos_time = 2 /\ trackData[i].latitude = 11
          /\ trackData[j].pos_time = 2 /\ trackData[j].latitude = 10
          /\ ~AcceptedTrack(trackData[k])
    /\ DOMAIN dataByTs = {2}
    /\ dataByTs[2].location = Some([lat |-> 11, lng |-> 20])

\* the state token an entry of a door map stands for
TokenOf(v) == IF v = 1 THEN "OPEN" ELSE "CLOSED"

\* C24 (door state mapping): every entry of a snapshot's door map comes from a
\* door reading of that timestamp and sensor whose state is OPEN for the
\* value 1 and CLOSED for the value 0; a reading with any other state token
\* contributes no entry.
C24_DoorStateMapping ==
    pc \in {"merged", "done"} =>
        \A ts \in DOMAIN dataByTs :
            \A s \in DOMAIN OrEmpty(dataByTs[ts].doorStatus) :
                \E i \in DOMAIN doorData :
                    /\ DateGetTime(doorData[i].timestamp) = ts
                    /\ doorData[i].sensor = s
                    /\ doorData[i].status = TokenOf(Get(dataByTs[ts].doorStatus)[s])

\* the step processes a snapshot for which results' holds no real point
SkipsSnapshot ==
    /\ Len(visited') = Len(visited) + 1
    /\ ~\E i \in DOMAIN results' :
           /\ kinds'[i] = "real"
           /\ results'[i].timestamp = visited'[Len(visited')].timestamp

\* C25 (frame of a skipped snapshot): a loop iteration that does not emit its
\* snapshot leaves the output array, the carried temperatures, the carried
\* door state and the carried location as they were.
C25_SkippedFrame ==
    [][SkipsSnapshot => UNCHANGED <<results, carriedTemps, lastDoor, lastLocation>>]_vars

\* the last snapshot processed had door data only, was not emitted, and the
\* carried state is the one recorded before it, temperatures included
C25_Witness ==
    /\ visited # <<>>
    /\ LET n == Len(visited)
           point == dataByTs[visited[n].timestamp]
       IN  /\ ~Emitted(n)
           /\ IsSome(point.doorStatus)
           /\ IsSome(carriedTemps)
           /\ carriedTemps = visited[n].carriedTemps
           /\ lastDoor = visited[n].lastDoor
           /\ lastLocation = visited[n].lastLocation
           /\ Len(results) = n - 1

Keys(o) == DOMAIN OrEmpty(o)

\* C26 (sensor sets never shrink): from any output point to any later one the
\* sensor ids of temperatures and of doorStatus are kept, and a temperatures,
\* doorStatus or location that is not null is not null in any later point.
C26_SensorSetsGrow ==
    \A i, j \in DOMAIN results :
        i < j =>
            /\ Keys(results[i].temperatures) \subseteq Keys(results[j].temperatures)
            /\ Keys(results[i].doorStatus) \subseteq Keys(results[j].doorStatus)
            /\ IsSome(results[i].temperatures) => IsSome(results[j].temperatures)
            /\ IsSome(results[i].doorStatus) => IsSome(results[j].doorStatus)
            /\ IsSome(results[i].location) => IsSome(results[j].location)

\* a second temperature sensor appears at the second point, and the third
\* point, which brings the first door reading, still has both
C26_Witness ==
    /\ pc = "done"
    /\ Len(results) = 3
    /\ Keys(results[1].temperatures) = {1}
    /\ Keys(results[2].temperatures) = {1, 2}
    /\ Keys(results[3].temperatures) = {1, 2}
    /\ ~IsSome(results[2].doorStatus)
    /\ Keys(results[3].doorStatus) = {1}

\* C27 (shape of the output): every synthetic point has a real point right
\* before it and a real point right after it, the latter with a timestamp
\* greater by exactly 1; so the output neither starts nor ends with a
\* synthetic point and has no two synthetic points in a row; the two real
\* points around a synthetic point are more than 1 apart; and n processed
\* snapshots have produced at most 2n - 1 points.
C27_OutputShape ==
    /\ \A i \in DOMAIN results :
          kinds[i] = "synthetic" =>
              /\ 1 < i /\ i < Len(results)
              /\ IsReal(i - 1) /\ IsReal(i + 1)
              /\ IsFinite(results[i - 1].timestamp)
              /\ IsFinite(results[i + 1].timestamp)
              /\ results[i + 1].timestamp = results[i].timestamp + 1
              /\ results[i + 1].timestamp - results[i - 1].timestamp > 1
    /\ visited # <<>> =>
          /\ 1 <= Len(results)
          /\ Len(results) <= 2 * Len(visited) - 1
    /\ pc = "done" /\ results # <<>> =>
          Len(results) <= 2 * Cardinality(DOMAIN dataByTs) - 1

\* two snapshots more than 1 apart give three points, the bound 2n - 1, with
\* the synthetic point between the two real ones
C27_Witness ==
    /\ pc = "done"
    /\ Cardinality(DOMAIN dataByTs) = 2
    /\ Len(visited) = 2
    /\ kinds = <<"real", "synthetic", "real">>
    /\ results[3].timestamp = results[2].timestamp + 1
    /\ results[3].timestamp = results[1].timestamp + 2

\* ceil((endTime - startTime) / maxDurationMs)
ChunkCount(o) == (o.endTime - o.startTime + o.maxDurationMs - 1) \div o.maxDurationMs

RequestCountRight ==
    \A c \in DOMAIN calls :
        LET o == calls[c].options
        IN  IsChunkCall(c) =>
              IF o.startTime < o.endTime
              THEN /\ Len(ChunkLog(c)) <= ChunkCount(o)
                   /\ calls[c].pc = "returned" => Len(ChunkLog(c)) = ChunkCount(o)
              ELSE /\ calls[c].pc = "returned"
                   /\ ChunkLog(c) = <<>>
                   /\ calls[c].result = <<>>

\* C28 (chunk loop termination): when every request is eventually answered,
\* with a result or an error, getChunkedHistoricalData returns; for
\* startTime < endTime it has then issued exactly
\* ceil((endTime - startTime) / maxDurationMs) requests and never more before;
\* for startTime >= endTime it returns an empty list at once, without a request.
C28_ChunkLoopTerminates ==
    /\ []RequestCountRight
    /\ <>(\A c \in DOMAIN calls : calls[c].pc = "returned")

\* a window of five days in chunks of two: three requests, two of them
\* failed, and the call has returned
C28_Witness ==
    \E c \in DOMAIN calls :
        /\ IsChunkCall(c)
        /\ calls[c].pc = "returned"
        /\ calls[c].options.endTime - calls[c].options.startTime = 5
        /\ calls[c].options.maxDurationMs = 2
        /\ Len(ChunkLog(c)) = 3
        /\ ChunkLog(c)[1].reply = Failure
        /\ ChunkLog(c)[2].reply = Unauthorized
        /\ ChunkLog(c)[3].reply = Array(<<T1>>)

\* the explicit ids of the readings assignStableIds keeps
ExplicitIdsIn(raw, valueKey) ==
    {ExplicitIdOf(raw[i]) : i \in {j \in DOMAIN raw : WellFormed(raw[j], valueKey)
                                                      /\ HasExplicitId(raw[j])}}

NoCollision(raw, out, valueKey) ==
    /\ FabricatedIds(raw, out) \cap ExplicitIdsIn(raw, valueKey) = {}
    /\ \A j, k \in DOMAIN out :
          (/\ j # k
           /\ WellFormed(out[j], valueKey) /\ WellFormed(out[k], valueKey)
           /\ out[j].timestamp = out[k].timestamp
           /\ ~HasExplicitId(raw[out[j].id]))
          => out[j].sensor # out[k].sensor

CurrentRequest(r) ==
    /\ r.request = toggles
    /\ r.trip = expandedTripId

\* C30 (no stale trip details): in TripReport, whatever the order of
\* toggleTrip calls and responses, expandedTripData is null or holds what was
\* fetched for the trip expandedTripId identifies, and while the request of
\* the currently expanded trip is awaited the loading flag stays set.
C30_NoStaleTripDetails ==
    /\ IsSome(expandedTripData) => Get(expandedTripData).trip = expandedTripId
    /\ \A r \in tripRequests :
          CurrentRequest(r) => isTripDetailsLoading

====
